---- MODULE Spec2Model ----
(***************************************************************************)
(* Staged deployment / promotion state machine of gnu-mlops-repo:          *)
(* src/src/deploy_model.py (ModelDeployment, main) and                     *)
(* src/src/retrain_model.py (AutomaticRetrainer), over the model registry  *)
(* they call through MlflowClient.                                         *)
(*                                                                         *)
(* Accuracies and thresholds are integers in millionths (0.35 = 350000).   *)
(* Time is counted in half days, so that timedelta.days is a real floor.   *)
(***************************************************************************)
EXTENDS Integers, Sequences, FiniteSets, TLC

VARIABLES
    versions,   \* registry: version id -> [stage, run_id]
    runs,       \* tracking store: run id -> [accuracy, start_time]
    config,     \* config.yaml as loaded by the constructors
    now,        \* wall clock, in half days
    history,    \* the versions that have occupied Production at some time
    last,       \* record of the last call: arguments, result, registry changes
    procs       \* deployer processes under way: position and local variables

vars == <<versions, runs, config, now, history, last, procs>>

----------------------------------------------------------------------------
(* Bounds of the model *)

MaxVersions == 3
MaxTime == 2
MaxRetrained == 2
MaxInterleaved == 3

(* Program constants *)

StagingThreshold == 350000
ProductionThreshold == 400000
DefaultAccuracy == 0

\* resolution of the clock against which timedelta.days is taken
HalfDaysPerDay == 2

\* accuracies a training run can log: just below the staging threshold, on it
\* (below the production threshold), above both
Accuracies == {349999, 350000, 420000}

\* the same where backend calls can fail: passes staging only, passes both
FaultyAccuracies == {350000, 420000}

\* The backend calls that fail during one operation: none, or one of the
\* calls the operation makes.
FaultSets(calls) == {{}} \cup {{c} : c \in calls}

NoFaults == {{}}

\* the backend calls each operation makes (version/target 0: not given)
GateCalls == {"get_registered_model", "get_model_version", "get_run",
              "transition", "update_model_version"}
StagingCalls == GateCalls \cup {"list_none"}
ProductionCalls(version) ==
    IF version = 0 THEN GateCalls \cup {"list_staging", "list_none"} ELSE GateCalls
RollbackCalls(target) ==
    IF target = 0 THEN {"search_model_versions", "transition"} ELSE {"transition"}
InfoCalls == {"list_production", "get_run"}

Faulty(faulty, calls) == IF faulty THEN FaultSets(calls) ELSE NoFaults


BackendStages == {"None", "Staging", "Production", "Archived"}

----------------------------------------------------------------------------
(* Metric maps *)

EmptyMetrics == [k \in {} |-> 0]

MetricsOf(a) == [k \in {"accuracy"} |-> a]

\* dict.get(key, default)
DictGet(m, key, default) == IF key \in DOMAIN m THEN m[key] ELSE default

SetMax(S) == CHOOSE x \in S : \A y \in S : y <= x

----------------------------------------------------------------------------
(* The registry backend as the code calls it *)

VersionsIn(mv, s) == {v \in DOMAIN mv : mv[v].stage = s}

\* client.get_latest_versions(name, stages=[s]): the newest version of the stage
\* (an unknown stage name is rejected by the backend)
get_latest_versions(mv, s, F, call) ==
    IF call \in F \/ s \notin BackendStages
    THEN [err |-> TRUE, found |-> <<>>]
    ELSE [err |-> FALSE,
          found |-> IF VersionsIn(mv, s) = {} THEN <<>> ELSE <<SetMax(VersionsIn(mv, s))>>]

\* a transition that leaves the other versions of the stage where they are
MutTransitionNoArchive(mv, v, s, archive) ==
    [w \in DOMAIN mv |-> IF w = v THEN [mv[w] EXCEPT !.stage = s] ELSE mv[w]]

\* a transition that sends the versions it displaces to Staging
MutTransitionDemotesToStaging(mv, v, s, archive) ==
    [w \in DOMAIN mv |->
        IF w = v THEN [mv[w] EXCEPT !.stage = s]
        ELSE IF archive /\ mv[w].stage = s THEN [mv[w] EXCEPT !.stage = "Staging"]
        ELSE mv[w]]

\* a transition that sends the versions it displaces back to None
MutTransitionDemotes(mv, v, s, archive) ==
    [w \in DOMAIN mv |->
        IF w = v THEN [mv[w] EXCEPT !.stage = s]
        ELSE IF archive /\ mv[w].stage = s THEN [mv[w] EXCEPT !.stage = "None"]
        ELSE mv[w]]

\* client.transition_model_version_stage(..., archive_existing_versions=archive)
transition_model_version_stage(mv, v, s, archive) ==
    [w \in DOMAIN mv |->
        IF w = v THEN [mv[w] EXCEPT !.stage = s]
        ELSE IF archive /\ mv[w].stage = s THEN [mv[w] EXCEPT !.stage = "Archived"]
        ELSE mv[w]]

----------------------------------------------------------------------------
(* ModelDeployment *)

\* a lookup that answers with the run's metrics although the call failed
MutMetricsIgnoreFailure(rn, run_id, F) ==
    IF run_id \notin DOMAIN rn
    THEN EmptyMetrics
    ELSE MetricsOf(rn[run_id].accuracy)

\* get_model_metrics: the run's metrics, {} when the lookup fails
get_model_metrics(rn, run_id, F) ==
    IF "get_run" \in F \/ run_id \notin DOMAIN rn
    THEN EmptyMetrics
    ELSE MetricsOf(rn[run_id].accuracy)

\* a gate that rejects an accuracy equal to the threshold
MutValidateStrict(metrics, threshold) ==
    DictGet(metrics, "accuracy", DefaultAccuracy) > threshold

\* validate_model_performance: metrics.get('accuracy', 0) >= threshold
validate_model_performance(metrics, threshold) ==
    DictGet(metrics, "accuracy", DefaultAccuracy) >= threshold

\* the display name GNU_Production is mapped to the backend's Production
MlflowStage(stage) == IF stage = "GNU_Production" THEN "Production" ELSE stage

\* a transition whose failure is logged and not raised again
MutTransitionSwallows(mv, v, stage, F) ==
    IF "transition" \in F \/ v \notin DOMAIN mv \/ MlflowStage(stage) \notin BackendStages
    THEN [err |-> FALSE, mv |-> mv]
    ELSE [err |-> FALSE,
          mv |-> transition_model_version_stage(mv, v, MlflowStage(stage), TRUE)]

\* a transition made with archive_existing_versions=False
MutTransitionKeepsOccupant(mv, v, stage, F) ==
    IF "transition" \in F \/ v \notin DOMAIN mv \/ MlflowStage(stage) \notin BackendStages
    THEN [err |-> TRUE, mv |-> mv]
    ELSE [err |-> FALSE,
          mv |-> transition_model_version_stage(mv, v, MlflowStage(stage), FALSE)]

\* transition_model_stage: [err, mv]; on error the registry is as before
transition_model_stage(mv, v, stage, F) ==
    IF "transition" \in F \/ v \notin DOMAIN mv \/ MlflowStage(stage) \notin BackendStages
    THEN [err |-> TRUE, mv |-> mv]
    ELSE [err |-> FALSE,
          mv |-> transition_model_version_stage(mv, v, MlflowStage(stage), TRUE)]

\* add_model_description: the versions whose description gets written;
\* failures of client.update_model_version are logged, not raised
add_model_description(mv, v, F) ==
    IF "update_model_version" \in F \/ v \notin DOMAIN mv THEN {} ELSE {v}

\* Result of a deployer call.  ret: "version" (the version id is in version),
\* "False", "True", or "raised".  errs: the backend calls that were made and
\* failed.  thr/acc: the threshold and accuracy the gate compared (gated says
\* whether the gate ran).  warn: the "Skipping Staging" warning was logged.
\* described: the versions whose description the call wrote.
Result(ret, v, mv, errs, cand, gated, thr, acc, warn) ==
    [ret |-> ret, version |-> v, mv |-> mv, errs |-> errs, cand |-> cand,
     gated |-> gated, thr |-> thr, acc |-> acc, warn |-> warn, described |-> {}]

\* steps 2-5 shared by deploy_to_staging and deploy_to_production
GateAndTransition(mv, rn, v, stage, threshold, F, errs0, warn) ==
    IF "get_model_version" \in F \/ v \notin DOMAIN mv
    THEN Result("raised", 0, mv, errs0 \cup {"get_model_version"}, v, FALSE, 0, 0, warn)
    ELSE
    LET metrics == get_model_metrics(rn, mv[v].run_id, F)
        errs1 == errs0 \cup (IF "get_run" \in F THEN {"get_run"} ELSE {})
        acc == DictGet(metrics, "accuracy", DefaultAccuracy)
    IN  IF ~ validate_model_performance(metrics, threshold)
        THEN Result("False", 0, mv, errs1, v, TRUE, threshold, acc, warn)
        ELSE
        LET tr == transition_model_stage(mv, v, stage, F)
            errs2 == errs1 \cup (IF tr.err \/ "transition" \in F
                                 THEN {"transition"} ELSE {})
        IN  IF tr.err
            THEN Result("raised", 0, tr.mv, errs2, v, TRUE, threshold, acc, warn)
            ELSE [Result("version", v, tr.mv,
                         errs2 \cup (IF "update_model_version" \in F
                                     THEN {"update_model_version"} ELSE {}),
                         v, TRUE, threshold, acc, warn)
                  EXCEPT !.described = add_model_description(tr.mv, v, F)]

DeployToStagingWith(mv, rn, F, threshold) ==
    IF "get_registered_model" \in F
    THEN Result("raised", 0, mv, {"get_registered_model"}, 0, FALSE, 0, 0, FALSE)
    ELSE IF Len(mv) = 0
    THEN Result("False", 0, mv, {}, 0, FALSE, 0, 0, FALSE)
    ELSE
    LET latest == get_latest_versions(mv, "None", F, "list_none")
    IN  IF latest.err
        THEN Result("raised", 0, mv, {"list_none"}, 0, FALSE, 0, 0, FALSE)
        ELSE IF latest.found = <<>>
        THEN Result("False", 0, mv, {}, 0, FALSE, 0, 0, FALSE)
        ELSE GateAndTransition(mv, rn, latest.found[1], "Staging",
                               threshold, F, {}, FALSE)

\* a staging promotion whose candidate is the newest version of any stage
MutStagingNewestVersion(mv, rn, F) ==
    IF Len(mv) = 0
    THEN Result("False", 0, mv, {}, 0, FALSE, 0, 0, FALSE)
    ELSE GateAndTransition(mv, rn, Len(mv), "Staging", StagingThreshold, F, {}, FALSE)

\* a staging gate that wants more than the threshold
MutStagingStrict(mv, rn, F) == DeployToStagingWith(mv, rn, F, StagingThreshold + 1)

\* a gate that lets every model through
MutStagingNoGate(mv, rn, F) == DeployToStagingWith(mv, rn, F, DefaultAccuracy)

\* a staging promotion whose candidate is the oldest version of the None stage
MutStagingOldestCandidate(mv, rn, F) ==
    IF VersionsIn(mv, "None") = {}
    THEN Result("False", 0, mv, {}, 0, FALSE, 0, 0, FALSE)
    ELSE GateAndTransition(mv, rn,
                           CHOOSE v \in VersionsIn(mv, "None") :
                               \A w \in VersionsIn(mv, "None") : v <= w,
                           "Staging", StagingThreshold, F, {}, FALSE)

\* a staging promotion that, with nothing in None, takes the newest Archived
\* version
MutStagingFromArchived(mv, rn, F) ==
    IF VersionsIn(mv, "None") = {} /\ VersionsIn(mv, "Archived") # {}
    THEN GateAndTransition(mv, rn, SetMax(VersionsIn(mv, "Archived")), "Staging",
                           StagingThreshold, F, {}, FALSE)
    ELSE DeployToStagingWith(mv, rn, F, StagingThreshold)

\* a staging promotion that lets the failure of the description update out
MutStagingDescriptionRaises(mv, rn, F) ==
    LET r == DeployToStagingWith(mv, rn, F, StagingThreshold)
    IN  IF "update_model_version" \in r.errs
        THEN [r EXCEPT !.ret = "raised", !.version = 0]
        ELSE r

\* validate_model_performance(metrics, threshold=0.35)
deploy_to_staging(mv, rn, F) == DeployToStagingWith(mv, rn, F, StagingThreshold)

\* version = 0 stands for version=None
DeployToProductionWith(mv, rn, version, F, threshold) ==
    IF "get_registered_model" \in F
    THEN Result("raised", 0, mv, {"get_registered_model"}, 0, FALSE, 0, 0, FALSE)
    ELSE IF Len(mv) = 0
    THEN Result("False", 0, mv, {}, 0, FALSE, 0, 0, FALSE)
    ELSE IF version # 0
    THEN GateAndTransition(mv, rn, version, "GNU_Production",
                           threshold, F, {}, FALSE)
    ELSE
    LET st == get_latest_versions(mv, "Staging", F, "list_staging")
        errs0 == IF st.err THEN {"list_staging"} ELSE {}
    IN  IF st.found # <<>>
        THEN GateAndTransition(mv, rn, st.found[1], "GNU_Production",
                               threshold, F, errs0, FALSE)
        ELSE
        LET nn == get_latest_versions(mv, "None", F, "list_none")
        IN  IF nn.err
            THEN Result("False", 0, mv, errs0 \cup {"list_none"}, 0, FALSE, 0, 0, FALSE)
            ELSE IF nn.found = <<>>
            THEN Result("False", 0, mv, errs0, 0, FALSE, 0, 0, FALSE)
            ELSE GateAndTransition(mv, rn, nn.found[1], "GNU_Production",
                                   threshold, F, errs0, TRUE)

\* a production promotion that takes a given version only from Staging
MutProductionExplicitStaged(mv, rn, version, F) ==
    IF version \in DOMAIN mv /\ mv[version].stage # "Staging"
    THEN Result("False", 0, mv, {}, version, FALSE, 0, 0, FALSE)
    ELSE DeployToProductionWith(mv, rn, version, F, ProductionThreshold)

\* a production promotion that does not gate a version given by the caller
MutProductionExplicitUngated(mv, rn, version, F) ==
    DeployToProductionWith(mv, rn, version, F,
                           IF version # 0 THEN DefaultAccuracy ELSE ProductionThreshold)

\* a production promotion without the fallback to the None stage
MutProductionNoFallback(mv, rn, version, F) ==
    IF version = 0 /\ VersionsIn(mv, "Staging") = {}
    THEN Result("False", 0, mv, {}, 0, FALSE, 0, 0, FALSE)
    ELSE DeployToProductionWith(mv, rn, version, F, ProductionThreshold)

\* a production promotion whose candidate is the newest of the Staging and
\* None versions
MutProductionNewestCandidate(mv, rn, version, F) ==
    LET cands == VersionsIn(mv, "Staging") \cup VersionsIn(mv, "None")
    IN  IF version = 0 /\ cands # {}
        THEN GateAndTransition(mv, rn, SetMax(cands), "GNU_Production",
                               ProductionThreshold, F, {}, FALSE)
        ELSE DeployToProductionWith(mv, rn, version, F, ProductionThreshold)

\* the production gate run with the staging threshold
MutProductionStagingGate(mv, rn, version, F) ==
    DeployToProductionWith(mv, rn, version, F, StagingThreshold)

\* production_threshold = 0.4
deploy_to_production(mv, rn, version, F) ==
    DeployToProductionWith(mv, rn, version, F, ProductionThreshold)

\* a rollback without target that restores the newest Archived version
MutRollbackNewestArchived(mv, target, F) ==
    IF target = 0 /\ VersionsIn(mv, "Archived") # {}
    THEN LET previous == SetMax(VersionsIn(mv, "Archived"))
         IN  Result("True", previous,
                    transition_model_version_stage(mv, previous, "Production", TRUE),
                    {}, previous, FALSE, 0, 0, FALSE)
    ELSE Result("False", 0, mv, {}, 0, FALSE, 0, 0, FALSE)

\* a rollback to a target that re-validates it against the production gate
MutRollbackGated(mv, target, F) ==
    IF target \in DOMAIN mv /\ runs[mv[target].run_id].accuracy >= ProductionThreshold
    THEN LET tr == transition_model_stage(mv, target, "GNU_Production", F)
         IN  IF tr.err
             THEN Result("False", 0, mv, {"transition"}, target, TRUE, 0, 0, FALSE)
             ELSE Result("True", target, tr.mv, {}, target, TRUE, 0, 0, FALSE)
    ELSE Result("False", 0, mv, {}, target, TRUE, 0, 0, FALSE)

\* a rollback that lets the failure of a backend call propagate
MutRollbackRaises(mv, target, F) ==
    IF target # 0
    THEN LET tr == transition_model_stage(mv, target, "GNU_Production", F)
         IN  IF tr.err
             THEN Result("raised", 0, mv, {"transition"}, target, FALSE, 0, 0, FALSE)
             ELSE Result("True", target, tr.mv, {}, target, FALSE, 0, 0, FALSE)
    ELSE IF "search_model_versions" \in F
    THEN Result("raised", 0, mv, {"search_model_versions"}, 0, FALSE, 0, 0, FALSE)
    ELSE Result("False", 0, mv, {}, 0, FALSE, 0, 0, FALSE)

\* a rollback that, finding no previous version, takes the current one out of
\* Production
MutRollbackArchivesCurrent(mv, target, F) ==
    IF target # 0
    THEN LET tr == transition_model_stage(mv, target, "GNU_Production", F)
         IN  IF tr.err
             THEN Result("False", 0, mv, {"transition"}, target, FALSE, 0, 0, FALSE)
             ELSE Result("True", target, tr.mv, {}, target, FALSE, 0, 0, FALSE)
    ELSE IF "search_model_versions" \in F \/ VersionsIn(mv, "Production") = {}
    THEN Result("False", 0, mv, {}, 0, FALSE, 0, 0, FALSE)
    ELSE Result("False", 0,
                transition_model_version_stage(mv, SetMax(VersionsIn(mv, "Production")),
                                               "Archived", FALSE),
                {}, 0, FALSE, 0, 0, FALSE)

\* target = 0 stands for target_version=None (falsy)
rollback_production(mv, target, F) ==
    IF target # 0
    THEN LET tr == transition_model_stage(mv, target, "GNU_Production", F)
         IN  IF tr.err
             THEN Result("False", 0, mv, {"transition"}, target, FALSE, 0, 0, FALSE)
             ELSE Result("True", target, tr.mv, {}, target, FALSE, 0, 0, FALSE)
    ELSE IF "search_model_versions" \in F
    THEN Result("False", 0, mv, {"search_model_versions"}, 0, FALSE, 0, 0, FALSE)
    ELSE
    LET prod == VersionsIn(mv, "Production")
    IN  IF Cardinality(prod) < 2
        THEN Result("False", 0, mv, {}, 0, FALSE, 0, 0, FALSE)
        ELSE
        LET previous == SetMax(prod \ {SetMax(prod)})
            tr == transition_model_stage(mv, previous, "GNU_Production", F)
        IN  IF tr.err
            THEN Result("False", 0, mv, {"transition"}, previous, FALSE, 0, 0, FALSE)
            ELSE Result("True", previous, tr.mv, {}, previous, FALSE, 0, 0, FALSE)

\* get_production_model_info: 0 stands for None, else the Production version
get_production_model_info(mv, F) ==
    LET pv == get_latest_versions(mv, "Production", F, "list_production")
    IN  IF pv.err \/ pv.found = <<>>
        THEN Result("None", 0, mv, IF pv.err THEN {"list_production"} ELSE {},
                    0, FALSE, 0, 0, FALSE)
        ELSE Result("version", pv.found[1], mv,
                    IF "get_run" \in F THEN {"get_run"} ELSE {},
                    0, FALSE, 0, 0, FALSE)

\* main() of deploy_model.py: the exit status of the process.  main() has no
\* sys.exit; only an exception that leaves it makes the status nonzero.
ExitStatus(r) == IF r.ret = "raised" THEN 1 ELSE 0

----------------------------------------------------------------------------
(* MLModelTrainer.run_training_pipeline: one run, one new version in None *)

run_training_pipeline(mv, rn, a, t) ==
    LET run_id == Len(rn) + 1
    IN  [mv |-> Append(mv, [stage |-> "None", run_id |-> run_id]),
         rn |-> Append(rn, [accuracy |-> a, start_time |-> t]),
         run_id |-> run_id,
         metrics |-> MetricsOf(a)]

----------------------------------------------------------------------------
(* AutomaticRetrainer *)

\* an optional value: None, or Some(x)
None == [none |-> TRUE]
Some(x) == [none |-> FALSE, val |-> x]

\* get_last_training_date: the start time of the run behind the version with
\* the highest number; None without versions, and None when a lookup fails
get_last_training_date(mv, rn, F) ==
    IF "search_model_versions" \in F THEN None
    ELSE IF Len(mv) = 0 THEN None
    ELSE IF "get_run" \in F THEN None
    ELSE Some(rn[mv[SetMax(DOMAIN mv)].run_id].start_time)

\* timedelta.days: whole days, rounded down
Days(halfdays) == halfdays \div HalfDaysPerDay

\* a schedule on which retraining is always due
MutShouldRetrainAlways(mv, rn, t, cfg, F) == TRUE

\* a schedule that wants more than interval_days whole days
MutShouldRetrainStrict(mv, rn, t, cfg, F) ==
    LET last_training == get_last_training_date(mv, rn, F)
    IN  IF last_training.none THEN TRUE
        ELSE Days(t - last_training.val) > cfg.interval_days

\* should_retrain: due without a last training date, or when at least
\* interval_days whole days have passed since it
should_retrain(mv, rn, t, cfg, F) ==
    LET last_training == get_last_training_date(mv, rn, F)
    IN  IF last_training.none THEN TRUE
        ELSE Days(t - last_training.val) >= cfg.interval_days

\* get_production_metrics: asks the backend for the stage "GNU_Production";
\* None when nothing is returned and when the call fails
get_production_metrics(mv, rn, F) ==
    LET pv == get_latest_versions(mv, "GNU_Production", F, "list_production")
    IN  IF pv.err THEN None
        ELSE IF pv.found = <<>> THEN None
        ELSE IF "get_run" \in F THEN None
        ELSE Some(MetricsOf(rn[mv[pv.found[1]].run_id].accuracy))

\* a comparison that wants more than min_improvement
MutCompareStrict(new_metrics, production_metrics, min_improvement) ==
    IF production_metrics.none
    THEN [is_better |-> TRUE, improvement |-> 0]
    ELSE LET improvement == DictGet(new_metrics, "accuracy", 0)
                            - DictGet(production_metrics.val, "accuracy", 0)
         IN  [is_better |-> improvement > min_improvement,
              improvement |-> improvement]

\* compare_models: [is_better, improvement]
compare_models(new_metrics, production_metrics, min_improvement) ==
    IF production_metrics.none
    THEN [is_better |-> TRUE, improvement |-> 0]
    ELSE LET improvement == DictGet(new_metrics, "accuracy", 0)
                            - DictGet(production_metrics.val, "accuracy", 0)
         IN  [is_better |-> improvement >= min_improvement,
              improvement |-> improvement]

\* send_notification: nothing without an address; a failure to send is logged
\* a notification whose delivery failure is not caught
MutNotificationRaises(cfg, F) ==
    IF ~ cfg.notification_email THEN "skipped"
    ELSE IF "mail" \in F THEN "raised"
    ELSE "sent"

\* send_notification: nothing without an address; a delivery failure is caught
\* and logged
send_notification(cfg, F) ==
    IF ~ cfg.notification_email THEN "skipped"
    ELSE IF "mail" \in F THEN "failed"
    ELSE "sent"

\* an auto-deploy step that calls deploy_to_production whatever
\* deploy_to_staging did
MutAutoDeployUnsequenced(mv, rn, F, Fp) ==
    LET st == deploy_to_staging(mv, rn, F)
        pr == deploy_to_production(IF st.ret = "version" THEN st.mv ELSE mv, rn, 0, Fp)
    IN  [mv |-> pr.mv,
         deployed |-> IF pr.ret = "version" THEN "True" ELSE "False",
         staging_version |-> IF st.ret = "version" THEN st.version ELSE 0,
         production_version |-> IF pr.ret = "version" THEN pr.version ELSE 0,
         deployment_error |-> (st.ret = "raised" \/ pr.ret = "raised"),
         reason |-> "", warn |-> pr.warn]

\* an auto-deploy step that drops the exception without recording it
MutAutoDeployUnrecorded(mv, rn, F, Fp) ==
    LET st == deploy_to_staging(mv, rn, F)
        pr == deploy_to_production(st.mv, rn, 0, Fp)
    IN  IF st.ret # "version"
        THEN [mv |-> mv, deployed |-> "False", staging_version |-> 0,
              production_version |-> 0, deployment_error |-> FALSE, reason |-> "",
              warn |-> FALSE]
        ELSE IF pr.ret # "version"
        THEN [mv |-> st.mv, deployed |-> "False", staging_version |-> st.version,
              production_version |-> 0, deployment_error |-> FALSE, reason |-> "",
              warn |-> pr.warn]
        ELSE [mv |-> pr.mv, deployed |-> "True", staging_version |-> st.version,
              production_version |-> pr.version, deployment_error |-> FALSE,
              reason |-> "", warn |-> pr.warn]

\* the auto-deploy step of retrain_and_deploy: staging first, production only
\* after staging returned a version; an exception of either is caught
auto_deploy(mv, rn, F, Fp) ==
    LET st == deploy_to_staging(mv, rn, F)
    IN  IF st.ret = "raised"
        THEN [mv |-> mv, deployed |-> "False", staging_version |-> 0,
              production_version |-> 0, deployment_error |-> TRUE, reason |-> "",
              warn |-> FALSE]
        ELSE IF st.ret = "False"
        THEN [mv |-> mv, deployed |-> "False", staging_version |-> 0,
              production_version |-> 0, deployment_error |-> FALSE, reason |-> "",
              warn |-> FALSE]
        ELSE
        LET pr == deploy_to_production(st.mv, rn, 0, Fp)
        IN  IF pr.ret = "raised"
            THEN [mv |-> st.mv, deployed |-> "False", staging_version |-> st.version,
                  production_version |-> 0, deployment_error |-> TRUE, reason |-> "",
                  warn |-> pr.warn]
            ELSE IF pr.ret = "False"
            THEN [mv |-> st.mv, deployed |-> "False", staging_version |-> st.version,
                  production_version |-> 0, deployment_error |-> FALSE, reason |-> "",
                  warn |-> pr.warn]
            ELSE [mv |-> pr.mv, deployed |-> "True", staging_version |-> st.version,
                  production_version |-> pr.version, deployment_error |-> FALSE,
                  reason |-> "", warn |-> pr.warn]

NoDeployment(mv, reason) ==
    [mv |-> mv, deployed |-> "False", staging_version |-> 0, production_version |-> 0,
     deployment_error |-> FALSE, reason |-> reason, warn |-> FALSE]

\* step 5 of retrain_and_deploy: deploy if better and auto_deploy is enabled,
\* else record why not
deploy_if_better(mv, rn, cfg, is_better, F, Fp) ==
    IF cfg.auto_deploy /\ is_better
    THEN auto_deploy(mv, rn, F, Fp)
    ELSE IF ~ cfg.auto_deploy
    THEN NoDeployment(mv, "auto_deploy disabled")
    ELSE NoDeployment(mv, "new model not better")

\* retrain_and_deploy(force).  ret: "result" (a result dict is returned) or
\* "raised".  notified: the outcomes of the notifications attempted, in order.
\* The summary notification is sent outside any try block, so an exception of
\* send_notification would leave retrain_and_deploy.
retrain_and_deploy(mv, rn, t, cfg, force, outcome, a, F, Fp) ==
    LET skipped == [ret |-> "result", status |-> "skipped", mv |-> mv, rn |-> rn,
                    trained |-> FALSE, run_id |-> 0, new_accuracy |-> 0,
                    production_none |-> TRUE, is_better |-> FALSE, improvement |-> 0,
                    deployment |-> NoDeployment(mv, "") , notified |-> <<>>]
    IN  IF ~ force /\ ~ should_retrain(mv, rn, t, cfg, F)
        THEN skipped
        ELSE
        LET production_metrics == get_production_metrics(mv, rn, F)
            tr == run_training_pipeline(mv, rn, a, t)
        IN  IF outcome # "ok"
            THEN [skipped EXCEPT
                    !.ret = "raised", !.status = "failed",
                    !.mv = IF outcome = "raised_registered" THEN tr.mv ELSE mv,
                    !.rn = IF outcome = "raised_registered" THEN tr.rn ELSE rn,
                    !.deployment =
                        NoDeployment(IF outcome = "raised_registered" THEN tr.mv ELSE mv, ""),
                    !.production_none = production_metrics.none,
                    !.notified = <<send_notification(cfg, F)>>]
            ELSE
            LET cmp == compare_models(tr.metrics, production_metrics, cfg.min_improvement)
                dep == deploy_if_better(tr.mv, tr.rn, cfg, cmp.is_better, F, Fp)
                sent == send_notification(cfg, F)
            IN  [ret |-> IF sent = "raised" THEN "raised" ELSE "result",
                 status |-> "completed", mv |-> dep.mv, rn |-> tr.rn,
                 trained |-> TRUE, run_id |-> tr.run_id, new_accuracy |-> a,
                 production_none |-> production_metrics.none,
                 is_better |-> cmp.is_better, improvement |-> cmp.improvement,
                 deployment |-> dep, notified |-> <<sent>>]

----------------------------------------------------------------------------
(* Configuration *)

\* config.yaml: the thresholds the documentation gives, a one-day interval
BaseConfig ==
    [staging_threshold |-> 350000, production_threshold |-> 400000,
     interval_days |-> 1, auto_deploy |-> TRUE, min_improvement |-> 0,
     notification_email |-> FALSE]

\* configurations of the deployer: the thresholds 0.35/0.40 and 0.70/0.80
DeployConfigs ==
    {BaseConfig,
     [BaseConfig EXCEPT !.staging_threshold = 700000, !.production_threshold = 800000]}

\* configurations of the retrainer
RetrainConfigs ==
    {[BaseConfig EXCEPT !.min_improvement = 10000, !.notification_email = TRUE],
     [BaseConfig EXCEPT !.auto_deploy = FALSE]}

----------------------------------------------------------------------------
(* State machine *)

\* the stage changes between two registries: <<version, from, to>>
Moves(pre, post) ==
    {<<v, pre[v].stage, post[v].stage>> : v \in {w \in DOMAIN pre : pre[w].stage # post[w].stage}}

\* the newest version of a stage, 0 when the stage is empty
Occupant(mv, s) == IF VersionsIn(mv, s) = {} THEN 0 ELSE SetMax(VersionsIn(mv, s))

\* what the registry held when a call started
PreFacts(mv) ==
    [none |-> Occupant(mv, "None"), staging |-> Occupant(mv, "Staging"),
     production |-> Occupant(mv, "Production"),
     archived |-> VersionsIn(mv, "Archived"), count |-> Len(mv)]

\* two deployer processes, each a run of python src/deploy_model.py
Procs == {1, 2}

IdleProc == [pc |-> "idle", op |-> "none", cand |-> 0]

NoProcs == [p \in Procs |-> IdleProc]

NoCall ==
    [op |-> "none", arg |-> 0, pre |-> PreFacts(<<>>), moved |-> {},
     out |-> [ret |-> "none"]]

\* the record of a deployer call made through main()
DeployerCall(op, arg, r) ==
    [op |-> op, arg |-> arg, pre |-> PreFacts(versions), moved |-> Moves(versions, r.mv),
     out |-> [ret |-> r.ret, version |-> r.version, errs |-> r.errs, cand |-> r.cand,
              gated |-> r.gated, thr |-> r.thr, acc |-> r.acc, warn |-> r.warn,
              described |-> r.described, exit |-> ExitStatus(r)]]

Init ==
    /\ versions = <<>>
    /\ runs = <<>>
    /\ config = BaseConfig
    /\ now = 0
    /\ history = {}
    /\ last = NoCall
    /\ procs = NoProcs

\* python src/train_model.py
TrainCall(accs) ==
    \E a \in accs :
        /\ Len(versions) < MaxVersions
        /\ \E t \in {run_training_pipeline(versions, runs, a, now)} :
               /\ versions' = t.mv
               /\ runs' = t.rn
               /\ last' = [op |-> "train", arg |-> a, pre |-> PreFacts(versions),
                           moved |-> {},
                           out |-> [ret |-> "version", version |-> Len(t.mv)]]
        /\ UNCHANGED <<config, now, history, procs>>

\* python src/deploy_model.py --stage staging
DeployToStagingCall(faulty) ==
    \E F \in Faulty(faulty, StagingCalls) :
        \E r \in {deploy_to_staging(versions, runs, F)} :
            /\ versions' = r.mv
            /\ last' = DeployerCall("deploy_to_staging", 0, r)
            /\ history' = history \cup VersionsIn(r.mv, "Production")
            /\ UNCHANGED <<runs, config, now, procs>>

\* the values of --version: 0 when it is not given, the registered versions,
\* and one that does not exist
VersionArgs == 0 .. (Len(versions) + 1)

\* python src/deploy_model.py --stage production [--version v]
\* (where backend calls fail, the call is made as the retrainer makes it,
\* without a version, or with a version that does not exist)
DeployToProductionCall(faulty) ==
    \E v \in IF faulty THEN {0, Len(versions) + 1} ELSE VersionArgs :
    \E F \in Faulty(faulty, ProductionCalls(v)) :
        \E r \in {deploy_to_production(versions, runs, v, F)} :
            /\ versions' = r.mv
            /\ last' = DeployerCall("deploy_to_production", v, r)
            /\ history' = history \cup VersionsIn(r.mv, "Production")
            /\ UNCHANGED <<runs, config, now, procs>>

\* python src/deploy_model.py --stage rollback [--version v]
RollbackProductionCall(faulty) ==
    \E v \in VersionArgs : \E F \in Faulty(faulty, RollbackCalls(v)) :
        \E r \in {rollback_production(versions, v, F)} :
            /\ versions' = r.mv
            /\ last' = DeployerCall("rollback_production", v, r)
            /\ history' = history \cup VersionsIn(r.mv, "Production")
            /\ UNCHANGED <<runs, config, now, procs>>

\* python src/deploy_model.py --stage info
InfoCall(faulty) ==
    \E F \in Faulty(faulty, InfoCalls) :
        \E r \in {get_production_model_info(versions, F)} :
            /\ last' = DeployerCall("get_production_model_info", 0, r)
            /\ UNCHANGED <<versions, runs, config, now, history, procs>>

(* The deployer and the trainer against a healthy backend *)

Train == TrainCall(Accuracies)
DeployToStaging == DeployToStagingCall(FALSE)
DeployToProduction == DeployToProductionCall(FALSE)
RollbackProduction == RollbackProductionCall(FALSE)
Info == InfoCall(FALSE)

Next ==
    \/ Train
    \/ DeployToStaging
    \/ DeployToProduction
    \/ RollbackProduction
    \/ Info

Spec == Init /\ [][Next]_vars

(* The same where one backend call of an operation may fail *)

TrainF == TrainCall(FaultyAccuracies)
DeployToStagingF == DeployToStagingCall(TRUE)
DeployToProductionF == DeployToProductionCall(TRUE)
RollbackProductionF == RollbackProductionCall(TRUE)
InfoF == InfoCall(TRUE)

NextFaults ==
    \/ TrainF
    \/ DeployToStagingF
    \/ DeployToProductionF
    \/ RollbackProductionF
    \/ InfoF

SpecFaults == Init /\ [][NextFaults]_vars

(* The retrainer: python src/retrain_model.py [--force] *)

\* accuracies the retrainer's training runs log
RetrainAccuracies == {350000, 800000, 805000}

FaultyRetrainAccuracies == {350000, 805000}

\* how the training step of a cycle ends: a run and a registered version, an
\* exception before the version is registered, or one after
TrainOutcomes == {"ok", "raised", "raised_registered"}

\* the calls of a cycle that may fail, up to and including deploy_to_staging
RetrainCalls ==
    {"search_model_versions", "get_run", "list_production", "mail", "transition"}

\* the calls of the cycle's deploy_to_production that may fail
RetrainProductionCalls == {"transition", "list_staging"}

\* a main() that logs the exception and ends normally
MutRetrainExitZero(r) ==
    [ret |-> r.ret, status |-> r.status, trained |-> r.trained, run_id |-> r.run_id,
     registered |-> Len(r.mv), new_accuracy |-> r.new_accuracy,
     production_none |-> r.production_none, is_better |-> r.is_better,
     deployed |-> r.deployment.deployed, reason |-> r.deployment.reason,
     staging_version |-> r.deployment.staging_version,
     production_version |-> r.deployment.production_version,
     deployment_error |-> r.deployment.deployment_error,
     notified |-> r.notified, exit |-> 0]

\* what main() of retrain_model.py sees of a cycle, and its exit status
\* (sys.exit(1) when retrain_and_deploy raised)
RetrainOutcome(r) ==
    [ret |-> r.ret, status |-> r.status, trained |-> r.trained, run_id |-> r.run_id,
     registered |-> Len(r.mv), new_accuracy |-> r.new_accuracy,
     production_none |-> r.production_none, is_better |-> r.is_better,
     deployed |-> r.deployment.deployed, reason |-> r.deployment.reason,
     staging_version |-> r.deployment.staging_version,
     production_version |-> r.deployment.production_version,
     deployment_error |-> r.deployment.deployment_error,
     notified |-> r.notified, exit |-> IF r.ret = "raised" THEN 1 ELSE 0]

Tick ==
    /\ now < MaxTime
    /\ now' = now + 1
    /\ UNCHANGED <<versions, runs, config, history, last, procs>>

\* one cycle; the failing call, if any, is one of the cycle up to
\* deploy_to_staging (F) or one of deploy_to_production (Fp)
RetrainCall(faulty) ==
    \E force \in BOOLEAN, outcome \in TrainOutcomes :
    \E a \in (IF faulty THEN FaultyRetrainAccuracies ELSE RetrainAccuracies) :
    \E F \in Faulty(faulty, RetrainCalls), Fp \in Faulty(faulty, RetrainProductionCalls) :
        /\ F = {} \/ Fp = {}
        /\ outcome # "ok" => (F \subseteq {"mail"} /\ Fp = {})
        /\ outcome = "raised" => a = SetMax(RetrainAccuracies)
        /\ \E r \in {retrain_and_deploy(versions, runs, now, config, force,
                                     outcome, a, F, Fp)} :
            /\ Len(r.mv) <= MaxRetrained
            /\ versions' = r.mv
            /\ runs' = r.rn
            /\ history' = history \cup VersionsIn(r.mv, "Production")
            /\ last' = [op |-> "retrain_and_deploy", arg |-> force,
                        pre |-> PreFacts(versions),
                        moved |-> Moves(versions, SubSeq(r.mv, 1, Len(versions))),
                        out |-> RetrainOutcome(r)]
            /\ UNCHANGED <<config, now, procs>>

InitRetrain ==
    /\ versions = <<>>
    /\ runs = <<>>
    /\ config \in RetrainConfigs
    /\ now = 0
    /\ history = {}
    /\ last = NoCall
    /\ procs = NoProcs

Retrain == RetrainCall(FALSE)

NextRetrain ==
    \/ Tick
    \/ Retrain

SpecRetrain == InitRetrain /\ [][NextRetrain]_vars

RetrainF == RetrainCall(TRUE)

NextRetrainFaults ==
    \/ Tick
    \/ RetrainF

SpecRetrainFaults == InitRetrain /\ [][NextRetrainFaults]_vars

(* The deployer and the retrainer on one registry, where one backend call of
   an operation may fail *)

NextLifecycle ==
    \/ RetrainF
    \/ DeployToStagingF
    \/ DeployToProductionF
    \/ RollbackProductionF

SpecLifecycle == InitRetrain /\ [][NextLifecycle]_vars

(* The trainer and the promotions of the deployer, without rollback *)

NextPromote ==
    \/ Train
    \/ DeployToStaging
    \/ DeployToProduction

SpecPromote == Init /\ [][NextPromote]_vars

(* Two deployer processes on one registry, no lock: every backend call is a
   step of its own, and the steps of the two processes interleave.  pc is
   the position of a process: "idle", "fallback" (deploy_to_production found
   Staging empty and is about to list None), "selected" (a candidate is
   chosen), "validated" (the gate passed, the transition comes next). *)

PromoteStage(op) == IF op = "deploy_to_staging" THEN "Staging" ELSE "GNU_Production"

PromoteThreshold(op) ==
    IF op = "deploy_to_staging" THEN StagingThreshold ELSE ProductionThreshold

\* python src/train_model.py, by the side of the deployers
TrainStep ==
    \E a \in FaultyAccuracies :
        /\ Len(versions) < MaxInterleaved
        /\ \E t \in {run_training_pipeline(versions, runs, a, now)} :
               /\ versions' = t.mv
               /\ runs' = t.rn
        /\ UNCHANGED <<config, now, history, last, procs>>

\* deploy_to_staging up to its candidate: get_latest_model_version
StartStaging(p) ==
    /\ procs[p].pc = "idle"
    /\ Len(versions) > 0
    /\ \E latest \in {get_latest_versions(versions, "None", {}, "list_none")} :
          /\ latest.found # <<>>
          /\ procs' = [procs EXCEPT ![p] = [pc |-> "selected", op |-> "deploy_to_staging",
                                            cand |-> latest.found[1]]]
    /\ UNCHANGED <<versions, runs, config, now, history, last>>

\* deploy_to_production(version) up to its candidate: the version given, or
\* the listing of Staging
StartProduction(p) ==
    /\ procs[p].pc = "idle"
    /\ Len(versions) > 0
    /\ \E v \in 0 .. Len(versions) :
          \E st \in {get_latest_versions(versions, "Staging", {}, "list_staging")} :
              procs' = [procs EXCEPT ![p] =
                          IF v # 0
                          THEN [pc |-> "selected", op |-> "deploy_to_production", cand |-> v]
                          ELSE IF st.found # <<>>
                          THEN [pc |-> "selected", op |-> "deploy_to_production",
                                cand |-> st.found[1]]
                          ELSE [pc |-> "fallback", op |-> "deploy_to_production",
                                cand |-> 0]]
    /\ UNCHANGED <<versions, runs, config, now, history, last>>

\* deploy_to_production: the listing of None after Staging was found empty
FallbackStep(p) ==
    /\ procs[p].pc = "fallback"
    /\ \E nn \in {get_latest_versions(versions, "None", {}, "list_none")} :
          procs' = [procs EXCEPT ![p] =
                      IF nn.found = <<>> THEN IdleProc
                      ELSE [@ EXCEPT !.pc = "selected", !.cand = nn.found[1]]]
    /\ UNCHANGED <<versions, runs, config, now, history, last>>

\* get_model_version, get_model_metrics, validate_model_performance
GateStep(p) ==
    /\ procs[p].pc = "selected"
    /\ \E metrics \in {get_model_metrics(runs, versions[procs[p].cand].run_id, {})} :
          procs' = [procs EXCEPT ![p] =
                      IF validate_model_performance(metrics, PromoteThreshold(@.op))
                      THEN [@ EXCEPT !.pc = "validated"]
                      ELSE IdleProc]
    /\ UNCHANGED <<versions, runs, config, now, history, last>>

\* transition_model_stage: the one backend call that writes
TransitionStep(p) ==
    /\ procs[p].pc = "validated"
    /\ versions' = transition_model_stage(versions, procs[p].cand,
                                          PromoteStage(procs[p].op), {}).mv
    /\ history' = history \cup VersionsIn(versions', "Production")
    /\ procs' = [procs EXCEPT ![p] = IdleProc]
    /\ UNCHANGED <<runs, config, now, last>>

\* rollback_production(target_version): the transition at once when a target
\* is given; else the listing, and the transition as a later step
RollbackStep(p) ==
    /\ procs[p].pc = "idle"
    /\ Len(versions) > 0
    /\ \E target \in 0 .. Len(versions) :
          IF target # 0
          THEN /\ versions' = transition_model_stage(versions, target,
                                                     "GNU_Production", {}).mv
               /\ history' = history \cup VersionsIn(versions', "Production")
               /\ UNCHANGED procs
          ELSE /\ Cardinality(VersionsIn(versions, "Production")) >= 2
               /\ procs' = [procs EXCEPT ![p] =
                               [pc |-> "validated", op |-> "rollback_production",
                                cand |-> SetMax(VersionsIn(versions, "Production")
                                                \ {SetMax(VersionsIn(versions, "Production"))})]]
               /\ UNCHANGED <<versions, history>>
    /\ UNCHANGED <<runs, config, now, last>>

NextInterleaved ==
    \/ TrainStep
    \/ \E p \in Procs : StartStaging(p)
    \/ \E p \in Procs : StartProduction(p)
    \/ \E p \in Procs : FallbackStep(p)
    \/ \E p \in Procs : GateStep(p)
    \/ \E p \in Procs : TransitionStep(p)
    \/ \E p \in Procs : RollbackStep(p)

SpecInterleaved == Init /\ [][NextInterleaved]_vars

(* The deployer under every configuration *)

InitConfigured ==
    /\ versions = <<>>
    /\ runs = <<>>
    /\ config \in DeployConfigs
    /\ now = 0
    /\ history = {}
    /\ last = NoCall
    /\ procs = NoProcs

SpecConfigured == InitConfigured /\ [][Next]_vars

(* validate_model_performance applied to metric maps and thresholds *)

GateThresholds == {0, 1, 349999, 350000, 350001, 400000, 420000, 800000, 805000, 1000000}

GateMetricMaps ==
    {EmptyMetrics}
        \cup {MetricsOf(a) : a \in {0, 1, 349999, 350000, 350001, 400000, 800000,
                                    805000, 1000000}}
        \cup {[k \in {"f1_score"} |-> 820000]}
        \cup {[k \in {"accuracy", "f1_score"} |-> 350000]}

ValidateCall ==
    \E m \in GateMetricMaps, t \in GateThresholds :
        /\ last' = [op |-> "validate_model_performance", arg |-> <<m, t>>,
                    pre |-> PreFacts(versions), moved |-> {},
                    out |-> [ret |-> IF validate_model_performance(m, t)
                                     THEN "True" ELSE "False"]]
        /\ UNCHANGED <<versions, runs, config, now, history, procs>>

NextGate == ValidateCall

SpecGate == Init /\ [][NextGate]_vars

(* compare_models applied to metric maps and values of min_improvement *)

CompareMetricMaps ==
    {EmptyMetrics, [k \in {"f1_score"} |-> 820000]}
        \cup {MetricsOf(a) : a \in {0, 5000, 10000, 800000, 805000, 810000}}

MinImprovements == {0, 5000, 10000}

CompareCall ==
    \E new_metrics \in CompareMetricMaps, mi \in MinImprovements :
    \E production_metrics \in {None} \cup {Some(m) : m \in CompareMetricMaps} :
        \E r \in {compare_models(new_metrics, production_metrics, mi)} :
            /\ last' = [op |-> "compare_models",
                        arg |-> <<new_metrics, production_metrics, mi>>,
                        pre |-> PreFacts(versions), moved |-> {},
                        out |-> [ret |-> "tuple", is_better |-> r.is_better,
                                 improvement |-> r.improvement]]
            /\ UNCHANGED <<versions, runs, config, now, history, procs>>

NextCompare == CompareCall

SpecCompare == Init /\ [][NextCompare]_vars

----------------------------------------------------------------------------
(* Claims *)

DeployOps == {"deploy_to_staging", "deploy_to_production", "rollback_production"}

TargetStage(op) == IF op = "deploy_to_staging" THEN "Staging" ELSE "Production"

Succeeded == last.op \in DeployOps /\ last.out.ret \in {"version", "True"}

\* C1: at most one version is in Staging and at most one in Production after
\* any sequence of deployer calls, and a successful transition leaves exactly
\* the transitioned version in its target stage.
SingletonInvariant ==
    /\ Cardinality(VersionsIn(versions, "Staging")) <= 1
    /\ Cardinality(VersionsIn(versions, "Production")) <= 1
    /\ Succeeded => VersionsIn(versions, TargetStage(last.op)) = {last.out.version}

\* a promotion to Production that displaced the previous occupant
SingletonWitness ==
    /\ Succeeded
    /\ last.op = "deploy_to_production"
    /\ last.pre.production # 0
    /\ last.pre.production # last.out.version
    /\ <<last.pre.production, "Production", "Archived">> \in last.moved

\* C2: when the newest version of the None stage has an accuracy below the
\* staging threshold, deploy_to_staging returns False, no version changes
\* stage and no description is written.
StagingRequiresValidation ==
    (/\ last.op = "deploy_to_staging"
     /\ last.pre.none # 0
     /\ runs[last.pre.none].accuracy < StagingThreshold)
    => (/\ last.out.ret = "False"
        /\ last.moved = {}
        /\ last.out.described = {})

\* the gate rejects a candidate while another version sits in Staging
StagingRejectedWitness ==
    /\ last.op = "deploy_to_staging"
    /\ last.pre.none # 0
    /\ runs[last.pre.none].accuracy < StagingThreshold
    /\ last.pre.staging # 0
    /\ last.out.ret = "False"

\* C3: validate_model_performance(m, t) is True exactly when
\* m.get('accuracy', 0) >= t, for maps with and without the accuracy key, and
\* it changes nothing in the registry.
GateDeterminism ==
    last.op = "validate_model_performance"
    => LET m == last.arg[1]
           t == last.arg[2]
       IN  /\ "accuracy" \in DOMAIN m => (last.out.ret = "True" <=> m["accuracy"] >= t)
           /\ "accuracy" \notin DOMAIN m => (last.out.ret = "True" <=> 0 >= t)
           /\ last.out.ret \in {"True", "False"}
           /\ last.moved = {}

\* a map without the accuracy key is rejected by a positive threshold
GateMissingKeyWitness ==
    /\ last.op = "validate_model_performance"
    /\ "accuracy" \notin DOMAIN last.arg[1]
    /\ DOMAIN last.arg[1] # {}
    /\ last.arg[2] > 0
    /\ last.out.ret = "False"

\* C4 (as claimed): with v1 and v2 Archived after having been in Production and
\* v3 in Production, rollback_production() succeeds, v2 is in Production and
\* v3 is Archived.
RollbackRestoresPrior ==
    (/\ last.op = "rollback_production"
     /\ last.arg = 0
     /\ last.pre.production = 3
     /\ {1, 2} \subseteq last.pre.archived
     /\ {1, 2} \subseteq history)
    => (/\ last.out.ret = "True"
        /\ versions[2].stage = "Production"
        /\ versions[3].stage = "Archived")

\* C7 (as claimed): the deploy command exits 0 exactly when the action
\* succeeded or was the informational no-op; a rejected gate, a missing
\* candidate, a failed rollback or a backend error exits nonzero.
CliExitStatus ==
    last.op \in DeployOps \cup {"get_production_model_info"}
    => (last.out.exit = 0 <=> last.out.ret \in {"version", "True", "None"})

\* the version deploy_to_production resolves from its argument
Resolved ==
    IF last.arg # 0 THEN last.arg
    ELSE IF last.pre.staging # 0 THEN last.pre.staging
    ELSE last.pre.none

\* C8: when the version deploy_to_production resolves has an accuracy below
\* the production threshold, it returns False and no version changes stage:
\* the Staging and Production occupants stay where they were.
ProductionGate ==
    (/\ last.op = "deploy_to_production"
     /\ Resolved \in 1 .. last.pre.count
     /\ runs[Resolved].accuracy < ProductionThreshold)
    => (/\ last.out.ret = "False"
        /\ last.moved = {}
        /\ Occupant(versions, "Staging") = last.pre.staging
        /\ Occupant(versions, "Production") = last.pre.production)

\* the Staging occupant is refused while another version is in Production
ProductionRejectedWitness ==
    /\ last.op = "deploy_to_production"
    /\ last.arg = 0
    /\ last.pre.staging # 0
    /\ last.pre.production # 0
    /\ runs[last.pre.staging].accuracy < ProductionThreshold
    /\ runs[last.pre.staging].accuracy >= StagingThreshold
    /\ last.out.ret = "False"

\* C9 (as claimed): when a backend call made inside deploy_to_staging or
\* deploy_to_production fails (listing a stage, fetching the version record,
\* fetching the run metrics, the transition), the call raises an error, which
\* is neither a gate rejection nor a missing candidate, and no version has
\* changed stage.
RegistryFailuresSurfaced ==
    (/\ last.op \in {"deploy_to_staging", "deploy_to_production"}
     /\ last.out.errs \cap {"list_none", "list_staging", "get_model_version",
                            "get_run", "transition"} # {})
    => (last.out.ret = "raised" /\ last.moved = {})

\* C5 (as claimed): with the Production occupant at accuracy 0.80, a new model
\* at 0.805 and min_improvement 0.01, a cycle with auto_deploy computes
\* is_better = False, changes no stage (the new version stays in None) and
\* gives the reason 'new model not better'.
ImprovementGatedRetrain ==
    (/\ last.op = "retrain_and_deploy"
     /\ last.out.status = "completed"
     /\ config.auto_deploy
     /\ config.min_improvement = 10000
     /\ last.pre.production # 0
     /\ runs[last.pre.production].accuracy = 800000
     /\ last.out.new_accuracy = 805000)
    => (/\ ~ last.out.is_better
        /\ last.moved = {}
        /\ versions[last.out.registered].stage = "None"
        /\ last.out.reason = "new model not better")

\* the time since the run behind the highest-numbered version started, as the
\* call found it
SinceLastTraining == now - runs[versions[last.pre.count].run_id].start_time

\* C6: a call without force made less than interval_days after the run behind
\* the highest-numbered version started is skipped: nothing is trained, no
\* version is registered, no stage changes and no notification is sent,
\* whatever calls came before it.
IdempotentSkip ==
    (/\ last.op = "retrain_and_deploy"
     /\ ~ last.arg
     /\ last.pre.count > 0
     /\ SinceLastTraining < config.interval_days * HalfDaysPerDay)
    => (/\ last.out.status = "skipped"
        /\ last.out.ret = "result"
        /\ ~ last.out.trained
        /\ last.out.registered = last.pre.count
        /\ Len(runs) = last.pre.count
        /\ last.moved = {}
        /\ last.out.notified = <<>>
        /\ last.out.exit = 0)

\* a skipped call half a day after a training, with an address configured
IdempotentSkipWitness ==
    /\ last.op = "retrain_and_deploy"
    /\ ~ last.arg
    /\ last.pre.count > 0
    /\ SinceLastTraining = 1
    /\ config.notification_email
    /\ last.out.status = "skipped"

\* C10 (as claimed): the gates compare against the configured thresholds: a
\* candidate is promoted to Staging exactly when its accuracy reaches
\* config.staging_threshold, and the resolved version to Production exactly
\* when its accuracy reaches config.production_threshold.
ConfiguredThresholds ==
    /\ (last.op = "deploy_to_staging" /\ last.pre.none # 0)
        => (last.out.ret = "version"
            <=> runs[last.pre.none].accuracy >= config.staging_threshold)
    /\ (last.op = "deploy_to_production" /\ Resolved \in 1 .. last.pre.count)
        => (last.out.ret = "version"
            <=> runs[Resolved].accuracy >= config.production_threshold)

\* a lower bound of the versions that had occupied Production before the last
\* call: those of history the call did not itself move into Production
HistoryBefore ==
    history \ {m[1] : m \in {x \in last.moved : x[3] = "Production"}}

\* C11: rollback_production() without target, called when fewer than two
\* versions have ever occupied Production, returns False and changes no
\* version's stage.
RollbackInsufficientHistory ==
    (/\ last.op = "rollback_production"
     /\ last.arg = 0
     /\ Cardinality(HistoryBefore) < 2)
    => (/\ last.out.ret = "False"
        /\ last.moved = {})

\* a rollback refused with one version in Production and Archived versions
\* that never were in Production
RollbackInsufficientWitness ==
    /\ last.op = "rollback_production"
    /\ last.arg = 0
    /\ last.pre.production # 0
    /\ history = {last.pre.production}
    /\ last.pre.archived # {}
    /\ last.out.ret = "False"

\* C12: rollback_production(target_version=v) for an existing version v
\* returns True, leaves v in Production and the previous occupant Archived,
\* whatever v's accuracy and stage were.
RollbackTargetBypassesGate ==
    (/\ last.op = "rollback_production"
     /\ last.arg \in 1 .. last.pre.count)
    => (/\ last.out.ret = "True"
        /\ VersionsIn(versions, "Production") = {last.arg}
        /\ last.pre.production \notin {0, last.arg}
           => versions[last.pre.production].stage = "Archived")

\* a None version below the production threshold replaces the occupant
RollbackTargetWitness ==
    /\ last.op = "rollback_production"
    /\ last.arg \in 1 .. last.pre.count
    /\ runs[last.arg].accuracy < ProductionThreshold
    /\ <<last.arg, "None", "Production">> \in last.moved
    /\ last.pre.production # 0
    /\ last.out.ret = "True"

ProductionFallbackPath ==
    (/\ last.op = "deploy_to_production"
     /\ last.arg = 0
     /\ last.pre.staging = 0
     /\ last.pre.none # 0
     /\ runs[last.pre.none].accuracy >= ProductionThreshold)
    => (/\ last.out.ret = "version"
        /\ last.out.version = last.pre.none
        /\ <<last.pre.none, "None", "Production">> \in last.moved
        /\ VersionsIn(versions, "Production") = {last.pre.none}
        /\ last.out.warn)

\* the fallback replaces a Production occupant
ProductionFallbackWitness ==
    /\ last.op = "deploy_to_production"
    /\ last.arg = 0
    /\ last.pre.staging = 0
    /\ last.pre.none # 0
    /\ last.pre.production # 0
    /\ runs[last.pre.none].accuracy = 420000
    /\ last.out.warn
    /\ last.out.ret = "version"

\* C15: deploy_to_production(None) takes the Staging occupant as candidate,
\* also when a newer None version exists; without one the newest None
\* version; with neither it returns False and no version changes stage.
CandidateResolution ==
    (last.op = "deploy_to_production" /\ last.arg = 0)
    => (/\ last.pre.staging # 0 => last.out.cand = last.pre.staging
        /\ (last.pre.staging = 0 /\ last.pre.none # 0) => last.out.cand = last.pre.none
        /\ (last.pre.staging = 0 /\ last.pre.none = 0)
           => (last.out.ret = "False" /\ last.moved = {})
        /\ last.out.ret = "version" => last.out.version = last.out.cand)

\* the Staging occupant is promoted although a newer None version exists
CandidateResolutionWitness ==
    /\ last.op = "deploy_to_production"
    /\ last.arg = 0
    /\ last.pre.staging # 0
    /\ last.pre.none > last.pre.staging
    /\ last.out.ret = "version"
    /\ last.out.version = last.pre.staging

\* C16: without a version in the None stage, the model registered or not,
\* deploy_to_staging returns False and no version changes stage.
NoStagingCandidate ==
    (last.op = "deploy_to_staging" /\ last.pre.none = 0)
    => (/\ last.out.ret = "False"
        /\ last.moved = {}
        /\ last.out.described = {})

\* every registered version is in Staging, Production or Archived
NoStagingCandidateWitness ==
    /\ last.op = "deploy_to_staging"
    /\ last.pre.none = 0
    /\ last.pre.staging # 0
    /\ last.pre.production # 0
    /\ last.pre.archived # {}
    /\ last.out.ret = "False"

\* C17: the staging gate is inclusive: a candidate at exactly 0.35 is moved to
\* Staging and its id returned; one at 0.349999 is refused and no version
\* changes stage.
StagingBoundaryInclusive ==
    (last.op = "deploy_to_staging" /\ last.pre.none # 0)
    => (/\ runs[last.pre.none].accuracy = StagingThreshold
           => (/\ last.out.ret = "version"
               /\ last.out.version = last.pre.none
               /\ VersionsIn(versions, "Staging") = {last.pre.none})
        /\ runs[last.pre.none].accuracy = StagingThreshold - 1
           => (last.out.ret = "False" /\ last.moved = {}))

\* a candidate exactly on the threshold displaces the Staging occupant
StagingBoundaryWitness ==
    /\ last.op = "deploy_to_staging"
    /\ last.pre.none # 0
    /\ runs[last.pre.none].accuracy = StagingThreshold
    /\ last.out.thr = StagingThreshold
    /\ <<last.pre.staging, "Staging", "Archived">> \in last.moved
    /\ last.out.ret = "version"

\* the accuracy a comparison reads from a metric map: 0 without the key
ComparedAccuracy(m) == IF "accuracy" \in DOMAIN m THEN m["accuracy"] ELSE 0

AutoDeployed ==
    /\ last.op = "retrain_and_deploy"
    /\ last.out.status = "completed"
    /\ config.auto_deploy
    /\ last.out.is_better

\* C19: in a cycle with auto_deploy and is_better, deploy_to_production acts
\* only after deploy_to_staging returned a version; when staging succeeded
\* and the production gate refused, the result is 'completed' with the
\* staging version recorded and deployed = False, the new version is in
\* Staging and the Production occupant is the one from before.
AutoDeploySequencing ==
    AutoDeployed
    => (/\ last.out.staging_version = 0
           => (/\ last.out.production_version = 0
               /\ last.out.deployed = "False"
               /\ last.moved = {}
               /\ versions[last.out.registered].stage = "None")
        /\ (/\ last.out.staging_version # 0
            /\ last.out.production_version = 0
            /\ ~ last.out.deployment_error)
           => (/\ last.out.ret = "result"
               /\ last.out.staging_version = last.out.registered
               /\ last.out.deployed = "False"
               /\ versions[last.out.registered].stage = "Staging"
               /\ Occupant(versions, "Production") = last.pre.production))

\* staged but not produced: the new model passes the staging gate only, and
\* the earlier Production occupant stays
PartialSuccessWitness ==
    /\ AutoDeployed
    /\ last.out.new_accuracy < ProductionThreshold
    /\ last.out.staging_version = last.out.registered
    /\ last.out.deployed = "False"
    /\ ~ last.out.deployment_error
    /\ last.pre.production # 0
    /\ versions[last.pre.production].stage = "Production"

\* the new model does not beat the Production occupant the cycle found by
\* min_improvement
NotBetter ==
    /\ last.pre.production # 0
    /\ last.out.new_accuracy - runs[last.pre.production].accuracy
           < config.min_improvement

\* C20 (as claimed): a completed cycle with auto_deploy disabled, or whose new
\* model is not better, changes no stage: the new version stays in None, the
\* Staging and Production occupants stay, and the result has deployed = False
\* and the reason.
NoDeploymentWithoutImprovement ==
    (/\ last.op = "retrain_and_deploy"
     /\ last.out.status = "completed"
     /\ ~ config.auto_deploy \/ NotBetter)
    => (/\ last.moved = {}
        /\ versions[last.out.registered].stage = "None"
        /\ Occupant(versions, "Staging") = last.pre.staging
        /\ Occupant(versions, "Production") = last.pre.production
        /\ last.out.deployed = "False"
        /\ last.out.reason = IF ~ config.auto_deploy THEN "auto_deploy disabled"
                              ELSE "new model not better")

\* C21: when training raises inside retrain_and_deploy, one failure
\* notification is attempted and the exception leaves the call: nothing is
\* compared, nothing is deployed, no version changes its stage, and the
\* retrain CLI exits with status 1; a 'completed' or 'skipped' result exits
\* with status 0.
TrainingFailurePropagates ==
    last.op = "retrain_and_deploy"
    => (/\ last.out.status = "failed"
           => (/\ last.out.ret = "raised"
               /\ Len(last.out.notified) = 1
               /\ ~ last.out.trained
               /\ ~ last.out.is_better
               /\ last.out.deployed = "False"
               /\ last.out.staging_version = 0
               /\ last.out.production_version = 0
               /\ ~ last.out.deployment_error
               /\ last.moved = {}
               /\ Occupant(versions, "Staging") = last.pre.staging
               /\ Occupant(versions, "Production") = last.pre.production
               /\ last.out.exit = 1)
        /\ last.out.status \in {"completed", "skipped"}
           => (last.out.ret = "result" /\ last.out.exit = 0)
        /\ last.out.ret = "raised" => last.out.status = "failed")

\* training fails behind a Production occupant, after the failing run had
\* registered its version, and the failure notification cannot be delivered
TrainingFailureWitness ==
    /\ last.op = "retrain_and_deploy"
    /\ last.out.status = "failed"
    /\ last.pre.production # 0
    /\ last.out.registered = last.pre.count + 1
    /\ last.out.notified = <<"failed">>

\* the outcome of a cycle that a failing notification must not change
CycleEffect(r) ==
    [ret |-> r.ret, status |-> r.status, mv |-> r.mv, rn |-> r.rn,
     run_id |-> r.run_id, is_better |-> r.is_better, improvement |-> r.improvement,
     deployment |-> r.deployment]

\* C22: a notification that cannot be delivered, and a configuration without
\* an address, change nothing of a cycle: from every reachable state and for
\* every input, retrain_and_deploy returns the same value (or raises the same
\* way) and leaves the same stages as with a delivered notification.
NotificationBestEffort ==
    \A force \in BOOLEAN, outcome \in TrainOutcomes, a \in FaultyRetrainAccuracies :
    \A F \in Faulty(TRUE, RetrainCalls \ {"mail"}) :
        LET addressed == [config EXCEPT !.notification_email = TRUE]
            plain == [config EXCEPT !.notification_email = FALSE]
            delivered == retrain_and_deploy(versions, runs, now, addressed, force,
                                            outcome, a, F, {})
            undelivered == retrain_and_deploy(versions, runs, now, addressed, force,
                                              outcome, a, F \cup {"mail"}, {})
            unaddressed == retrain_and_deploy(versions, runs, now, plain, force,
                                              outcome, a, F, {})
        IN  /\ CycleEffect(undelivered) = CycleEffect(delivered)
            /\ CycleEffect(unaddressed) = CycleEffect(delivered)
            /\ delivered.ret = "raised" => outcome # "ok"

\* a cycle whose notification failed after it had moved its new version into
\* Production
NotificationFailedWitness ==
    /\ last.op = "retrain_and_deploy"
    /\ last.out.notified = <<"failed">>
    /\ last.out.ret = "result"
    /\ last.out.deployed = "True"
    /\ last.pre.production # 0
    /\ versions[last.out.registered].stage = "Production"

\* retraining is due for the registry mv at the current time: nothing is
\* registered, or the run behind the highest-numbered version started at
\* least interval_days ago
ScheduleDue(mv) ==
    \/ Len(mv) = 0
    \/ now - runs[mv[Len(mv)].run_id].start_time
           >= config.interval_days * HalfDaysPerDay

\* C23: with a working registry, should_retrain() is True exactly when no
\* version is registered or the run behind the highest-numbered version
\* started at least interval_days ago (exactly interval_days included), and a
\* call of retrain_and_deploy(force=False) is skipped exactly when it is not.
RetrainSchedule ==
    /\ should_retrain(versions, runs, now, config, {}) = ScheduleDue(versions)
    /\ \A outcome \in TrainOutcomes, a \in RetrainAccuracies :
          (retrain_and_deploy(versions, runs, now, config, FALSE, outcome, a,
                              {}, {}).status = "skipped")
              = ~ ScheduleDue(versions)

\* an unforced cycle trains exactly interval_days after the start of the run
\* behind the only version
RetrainBoundaryWitness ==
    /\ last.op = "retrain_and_deploy"
    /\ ~ last.arg
    /\ last.out.trained
    /\ last.pre.count = 1
    /\ now - runs[versions[1].run_id].start_time = config.interval_days * HalfDaysPerDay

PromoteOps == {"deploy_to_staging", "deploy_to_production"}

\* the transition of a promotion failed: the backend call failed, or the
\* version asked for is not among the registered ones
TransitionFailed ==
    /\ last.op \in PromoteOps
    /\ \/ "transition" \in last.out.errs
       \/ (/\ last.pre.count > 0
           /\ last.arg > last.pre.count
           /\ "get_registered_model" \notin last.out.errs)

\* C24: when the transition of deploy_to_staging or deploy_to_production
\* fails, the call raises, no version has changed its stage (the earlier
\* occupant of the target stage is still there) and no description is
\* written.
FailedTransitionKeepsState ==
    TransitionFailed
    => (/\ last.out.ret = "raised"
        /\ last.out.exit = 1
        /\ last.moved = {}
        /\ Occupant(versions, "Staging") = last.pre.staging
        /\ Occupant(versions, "Production") = last.pre.production
        /\ VersionsIn(versions, "Archived") = last.pre.archived
        /\ last.out.described = {})

\* the transition into Production fails for a candidate that passed the gate
\* while another version is in Production
FailedTransitionWitness ==
    /\ last.op = "deploy_to_production"
    /\ "transition" \in last.out.errs
    /\ last.out.gated
    /\ last.out.acc >= ProductionThreshold
    /\ last.pre.production # 0
    /\ last.out.cand # last.pre.production
    /\ versions[last.pre.production].stage = "Production"

\* what a promotion selected, gated and did to the registry
PromotionEffect(r) ==
    [ret |-> r.ret, version |-> r.version, mv |-> r.mv, cand |-> r.cand,
     gated |-> r.gated, thr |-> r.thr, acc |-> r.acc, warn |-> r.warn]

\* C25: when the description update fails after a successful transition,
\* deploy_to_staging and deploy_to_production still return the promoted
\* version id and the version stays in its target stage; and in every
\* reachable state a promotion whose description update fails selects, gates
\* and transitions as the one whose update goes through.
DescriptionBestEffort ==
    /\ (last.op \in PromoteOps /\ "update_model_version" \in last.out.errs)
       => (/\ last.out.ret = "version"
           /\ last.out.exit = 0
           /\ last.out.version = last.out.cand
           /\ versions[last.out.version].stage = TargetStage(last.op)
           /\ <<last.out.version, "None", TargetStage(last.op)>> \in last.moved
                 \/ <<last.out.version, "Staging", TargetStage(last.op)>> \in last.moved
           /\ last.out.described = {})
    /\ PromotionEffect(deploy_to_staging(versions, runs, {"update_model_version"}))
          = PromotionEffect(deploy_to_staging(versions, runs, {}))
    /\ \A v \in VersionArgs :
          PromotionEffect(deploy_to_production(versions, runs, v, {"update_model_version"}))
              = PromotionEffect(deploy_to_production(versions, runs, v, {}))

\* the description update fails after the Staging occupant replaced another
\* version in Production
DescriptionFailedWitness ==
    /\ last.op = "deploy_to_production"
    /\ "update_model_version" \in last.out.errs
    /\ last.pre.production # 0
    /\ last.out.version = last.pre.staging
    /\ versions[last.pre.production].stage = "Archived"
    /\ versions[last.out.version].stage = "Production"

\* version v held Staging or Production in pre and another version has taken
\* that stage in post
Displaced(pre, post, v) ==
    /\ pre[v].stage \in {"Staging", "Production"}
    /\ \E w \in DOMAIN post \ {v} :
          /\ post[w].stage = pre[v].stage
          /\ w \in DOMAIN pre => pre[w].stage # pre[v].stage

\* one step keeps every version and its run_id, archives what it displaces,
\* and leaves every version in one of the backend's stages
VersionsKept ==
    /\ Len(versions') >= Len(versions)
    /\ \A v \in DOMAIN versions :
          /\ versions'[v].run_id = versions[v].run_id
          /\ Displaced(versions, versions', v) => versions'[v].stage = "Archived"
    /\ \A v \in DOMAIN versions' : versions'[v].stage \in BackendStages

\* C26: no operation of the deployer or the retrainer removes a version or
\* changes its run_id; a version displaced from Staging or Production by a
\* promotion or a rollback is Archived right after; every version has exactly
\* one stage, one of None, Staging, Production and Archived.
VersionsNeverDestroyed == [][VersionsKept]_vars

\* a cycle of the retrainer has displaced version 1 from Production, and a
\* rollback to version 1 has then displaced the cycle's version
DisplacedArchivedWitness ==
    /\ last.op = "rollback_production"
    /\ last.arg = 1
    /\ last.pre.production = 2
    /\ <<2, "Production", "Archived">> \in last.moved
    /\ <<1, "Archived", "Production">> \in last.moved

\* C27: a successful deploy_to_staging promotes the highest-numbered version
\* of the None stage: afterwards that version is in Staging, the version that
\* was in Staging is Archived, and every other version (older None versions
\* and the Production occupant included) is in the stage it was in.
StagingEffect ==
    (last.op = "deploy_to_staging" /\ last.out.ret = "version")
    => (/\ last.pre.none # 0
        /\ last.out.version = last.pre.none
        /\ versions[last.out.version].stage = "Staging"
        /\ VersionsIn(versions, "Staging") = {last.out.version}
        /\ last.moved =
              {<<last.out.version, "None", "Staging">>}
              \cup (IF last.pre.staging = 0 THEN {}
                    ELSE {<<last.pre.staging, "Staging", "Archived">>})
        /\ Occupant(versions, "Production") = last.pre.production)

\* version 3 is promoted over version 2 in Staging while version 1, older and
\* still in None, stays there
StagingEffectWitness ==
    /\ last.op = "deploy_to_staging"
    /\ last.out.ret = "version"
    /\ last.out.version = 3
    /\ last.pre.staging = 2
    /\ versions[2].stage = "Archived"
    /\ versions[1].stage = "None"

\* C28: get_model_metrics returns the run's metric map when the lookup
\* succeeds and the empty map when it fails; a deploy_to_staging or
\* deploy_to_production whose metrics lookup fails is refused by the gate
\* (it returns False, with accuracy taken as 0) and makes no transition.
MetricsFailureFailsGate ==
    /\ \A run_id \in DOMAIN runs :
          /\ get_model_metrics(runs, run_id, {}) = MetricsOf(runs[run_id].accuracy)
          /\ get_model_metrics(runs, run_id, {"get_run"}) = EmptyMetrics
    /\ (last.op \in PromoteOps /\ "get_run" \in last.out.errs)
       => (/\ last.out.ret = "False"
           /\ last.out.exit = 0
           /\ last.out.gated
           /\ last.out.acc = DefaultAccuracy
           /\ last.moved = {}
           /\ versions[last.out.cand].stage \in {"None", "Staging"}
           /\ last.out.described = {})

\* the metrics lookup fails for a Staging occupant whose accuracy would have
\* passed the production gate
MetricsFailureWitness ==
    /\ last.op = "deploy_to_production"
    /\ "get_run" \in last.out.errs
    /\ last.out.cand = last.pre.staging
    /\ last.out.cand # 0
    /\ runs[versions[last.out.cand].run_id].accuracy >= ProductionThreshold
    /\ last.out.ret = "False"

\* C29: deploy_to_production(v) for a registered version v gates v's own
\* accuracy against the production threshold, whatever stage v is in.  When
\* the gate passes, v and only v is in Production afterwards, the version
\* that was in Production is Archived, and a Staging occupant other than v
\* is still in Staging; when it fails, no version changes its stage.
ExplicitProductionVersion ==
    (/\ last.op = "deploy_to_production"
     /\ last.arg \in 1 .. last.pre.count)
    => (/\ last.out.gated
        /\ last.out.cand = last.arg
        /\ last.out.thr = ProductionThreshold
        /\ last.out.acc = runs[versions[last.arg].run_id].accuracy
        /\ IF last.out.acc >= ProductionThreshold
           THEN /\ last.out.ret = "version"
                /\ last.out.version = last.arg
                /\ VersionsIn(versions, "Production") = {last.arg}
                /\ last.pre.production \notin {0, last.arg}
                   => <<last.pre.production, "Production", "Archived">> \in last.moved
                /\ last.pre.staging \notin {0, last.arg}
                   => versions[last.pre.staging].stage = "Staging"
                /\ \A m \in last.moved :
                      m[1] = last.arg \/ m = <<last.pre.production, "Production", "Archived">>
           ELSE /\ last.out.ret = "False"
                /\ last.moved = {})

\* version 3, still in None, is named and passes the gate: it replaces
\* version 1 in Production and version 2 stays in Staging
ExplicitFromNoneWitness ==
    /\ last.op = "deploy_to_production"
    /\ last.arg = 3
    /\ last.pre.production = 1
    /\ last.pre.staging = 2
    /\ last.out.ret = "version"
    /\ <<3, "None", "Production">> \in last.moved
    /\ versions[2].stage = "Staging"
    /\ versions[1].stage = "Archived"

\* deploy_to_staging, or the deploy_to_production that follows it, raises for
\* the registry mv under the failing calls F and Fp
DeployRaises(mv, rn, F, Fp) ==
    LET st == deploy_to_staging(mv, rn, F)
    IN  \/ st.ret = "raised"
        \/ st.ret = "version" /\ deploy_to_production(st.mv, rn, 0, Fp).ret = "raised"

InterleavedSingleton ==
    /\ Cardinality(VersionsIn(versions, "Staging")) <= 1
    /\ Cardinality(VersionsIn(versions, "Production")) <= 1

\* a race: both processes have passed the staging gate with different
\* candidates, and the other process's candidate is already in Staging
InterleavedRaceWitness ==
    /\ procs[1].pc = "validated"
    /\ procs[1].op = "deploy_to_staging"
    /\ procs[2].pc = "idle"
    /\ Occupant(versions, "Staging") \notin {0, procs[1].cand}
    /\ versions[procs[1].cand].stage = "None"
    /\ procs[1].cand < Occupant(versions, "Staging")

\* the accuracy recorded for version v
RecordedAccuracy(v) == runs[versions[v].run_id].accuracy

\* C32: from an empty Staging stage on, the version in Staging always has a
\* recorded accuracy at or above the staging threshold: nothing but
\* deploy_to_staging moves a version into Staging.
StagingOccupantValidated ==
    /\ \A v \in VersionsIn(versions, "Staging") : RecordedAccuracy(v) >= StagingThreshold
    /\ \A m \in last.moved : m[3] = "Staging" => last.op = "deploy_to_staging"

\* Staging holds a version exactly on the threshold after rollbacks and
\* promotions have gone by, and a version below the threshold is in Production
StagingValidatedWitness ==
    /\ Occupant(versions, "Staging") # 0
    /\ RecordedAccuracy(Occupant(versions, "Staging")) = StagingThreshold
    /\ Occupant(versions, "Production") # 0
    /\ RecordedAccuracy(Occupant(versions, "Production")) < StagingThreshold
    /\ last.op = "rollback_production"
    /\ last.out.ret = "True"

\* C33: from an empty Production stage on, as long as only deploy_to_staging
\* and deploy_to_production are used, the version in Production has a
\* recorded accuracy at or above the production threshold, hence at or above
\* the staging threshold.
ProductionOccupantValidated ==
    \A v \in VersionsIn(versions, "Production") :
        /\ RecordedAccuracy(v) >= ProductionThreshold
        /\ RecordedAccuracy(v) >= StagingThreshold

\* a version named by the caller is refused by the production gate while a
\* validated version is in Production
ProductionValidatedWitness ==
    /\ last.op = "deploy_to_production"
    /\ last.arg \in 1 .. last.pre.count
    /\ RecordedAccuracy(last.arg) < ProductionThreshold
    /\ RecordedAccuracy(last.arg) >= StagingThreshold
    /\ last.out.ret = "False"
    /\ Occupant(versions, "Production") # 0

\* C34: once a version has occupied Production, exactly one version occupies
\* Production after every further deploy_to_staging, deploy_to_production,
\* rollback_production and retrain_and_deploy, whether it succeeded or failed.
ProductionNeverVacated ==
    history # {} => Cardinality(VersionsIn(versions, "Production")) = 1

\* a rollback without a target fails while a version is in Production, after
\* a retrain cycle had put it there
ProductionKeptWitness ==
    /\ last.op = "rollback_production"
    /\ last.arg = 0
    /\ last.out.ret = "False"
    /\ last.pre.production # 0
    /\ Occupant(versions, "Production") = last.pre.production
    /\ Cardinality(history) = 2

\* C36 (as claimed): a staging_version or production_version reported by
\* retrain_and_deploy is the version registered by the training step of the
\* same call (the one whose run_id is the returned run_id), never an older
\* version.
RetrainDeploysOwnModel ==
    last.op = "retrain_and_deploy"
    => (/\ last.out.staging_version # 0
           => (/\ last.out.staging_version = last.out.registered
               /\ last.out.registered = last.pre.count + 1
               /\ versions[last.out.staging_version].run_id = last.out.run_id)
        /\ last.out.production_version # 0
           => (/\ last.out.production_version = last.out.registered
               /\ last.out.registered = last.pre.count + 1
               /\ versions[last.out.production_version].run_id = last.out.run_id))

\* a cycle reports an older version of the None stage as production_version
RetrainDeployedOlderWitness ==
    /\ last.op = "retrain_and_deploy"
    /\ last.out.staging_version = last.out.registered
    /\ last.out.production_version \notin {0, last.out.registered}
    /\ last.pre.none = last.out.production_version
    /\ versions[last.out.production_version].stage = "Production"
    /\ versions[last.out.registered].stage = "Staging"

\* C35: in every call no version moves back to None, a version enters Staging
\* from None only, a version leaves Production only for Archived, and an
\* Archived version changes stage only by a move to Production made by
\* rollback_production or by deploy_to_production with a version given.
OneDirectionalFlow ==
    \A m \in last.moved :
        /\ m[3] # "None"
        /\ m[3] = "Staging" => m[2] = "None"
        /\ m[2] = "Production" => m[3] = "Archived"
        /\ m[2] = "Archived"
           => (/\ m[3] = "Production"
               /\ \/ last.op = "rollback_production"
                  \/ last.op = "deploy_to_production" /\ last.arg # 0)

\* deploy_to_production, given an Archived version that was in Production
\* before, moves it back there and archives the occupant
ArchivedReturnsWitness ==
    /\ last.op = "deploy_to_production"
    /\ last.arg # 0
    /\ <<last.arg, "Archived", "Production">> \in last.moved
    /\ last.arg \in history
    /\ last.pre.production # 0
    /\ <<last.pre.production, "Production", "Archived">> \in last.moved

\* C37 (as claimed): the stage names handed to the backend are among None,
\* Staging, Production and Archived, GNU_Production being mapped to
\* Production first, so that the production model the retrainer sees is the
\* version the deployer put in Production: get_production_metrics answers
\* with the metrics of the Production occupant whenever there is one.
StageVocabulary ==
    /\ Occupant(versions, "Production") # 0
       => get_production_metrics(versions, runs, {})
              = Some(MetricsOf(RecordedAccuracy(Occupant(versions, "Production"))))
    /\ (/\ last.op = "retrain_and_deploy"
        /\ last.out.status # "skipped"
        /\ last.pre.production # 0)
       => ~ last.out.production_none

\* a cycle that found a version in Production and took Production for empty
ProductionUnseenWitness ==
    /\ last.op = "retrain_and_deploy"
    /\ last.out.status = "completed"
    /\ last.pre.production # 0
    /\ last.out.production_none

\* the registry queries behind get_last_training_date
LastTrainingCalls == {"search_model_versions", "get_run"}

\* C38 (as claimed): when the registry query behind the last training date
\* fails while retraining is not due, should_retrain does not answer True and
\* retrain_and_deploy(force=False) starts no training run.
BackendFailureNoRetrain ==
    (Len(versions) > 0 /\ ~ ScheduleDue(versions))
    => \A c \in LastTrainingCalls :
           /\ ~ should_retrain(versions, runs, now, config, {c})
           /\ \A a \in FaultyRetrainAccuracies :
                  retrain_and_deploy(versions, runs, now, config, FALSE, "ok", a,
                                     {c}, {}).status = "skipped"

\* an unforced cycle has trained a second version although the first was
\* trained less than interval_days before
UndueRetrainWitness ==
    /\ last.op = "retrain_and_deploy"
    /\ ~ last.arg
    /\ last.out.trained
    /\ last.pre.count = 1
    /\ now - runs[versions[1].run_id].start_time < config.interval_days * HalfDaysPerDay

====
